---------------------------- MODULE Spec2Model ----------------------------
(***************************************************************************)
(* TSCrunch 1.3 (src/tscrunch.py): the optimal parser Cruncher.ocrunch,    *)
(* its token family, the zero-run length selection findOptimalZero, the    *)
(* INPLACE suffix safety scan and the verification Decruncher.             *)
(*                                                                         *)
(* Byte strings are sequences of numbers in 0..255.  Python indexes from   *)
(* 0, sequences from 1: At(S, k) is S[k] of the source and Slice(S, a, b)  *)
(* is S[a:b].  Token costs are the source's costs multiplied by 100000, so *)
(* that they are integers.  Scores of findOptimalZero are compared in      *)
(* exact arithmetic (L * c^1.1 < L2 * c2^1.1 iff L^10 * c^11 < L2^10 *     *)
(* c2^11) on numbers kept as digit sequences.                              *)
(***************************************************************************)
EXTENDS Integers, Sequences, FiniteSets, TLC

\* ------------------------------------------------------------ constants
LONGESTRLE == 64
LONGESTLONGLZ == 64
LONGESTLZ == 32
LONGESTLITERAL == 31
MINRLE == 2
MINLZ == 3
LZOFFSET == 32767
LZ2OFFSET == 94

RLEMASK == 129
LZMASK == 128
LITERALMASK == 0
LZ2MASK == 0

TERMINATOR == LONGESTLITERAL + 1

ZERORUNID == 4
LZ2ID == 3
LZID == 2
RLEID == 1
LITERALID == 0

\* ------------------------------------------------------------ bounds
\* short inputs: every string over Alphabet of length 1..MaxLen
MaxLen == 7
\* long inputs: a stretch of up to MaxGap pairwise distinct bytes
MaxGap == 63
\* long inputs: a period-2 pattern of up to MaxPeriodic bytes
MaxPeriodic == 68
\* minimum match lengths tried at each position besides the one ocrunch asks
MaxMinLz == 4
\* inputs of the zero-run selection: up to MaxRuns runs of zeros
MaxRuns == 3
\* the paths of a graph are enumerated one by one for inputs of up to MaxBrute bytes
MaxBrute == 7

Alphabet == {0, TERMINATOR}

\* ------------------------------------------------------------ byte strings
Max(a, b) == IF a >= b THEN a ELSE b
Min(a, b) == IF a <= b THEN a ELSE b

At(S, k) == S[k + 1]

\* S[a:b] for 0 <= a
Slice(S, a, b) == SubSeq(S, a + 1, Min(b, Len(S)))

\* S[-n:] for n > 0
Tail_n(S, n) == SubSeq(S, Max(Len(S) - n, 0) + 1, Len(S))

Repeat(b, n) == [k \in 1..n |-> b]

\* the bitwise operators of Python on integers; a negative x is read in two's
\* complement (every mask of the source fits 16 bits)
RECURSIVE BitAndN(_, _, _)
BitAndN(x, y, n) ==
    IF n = 0 THEN 0
    ELSE (x % 2) * (y % 2) + 2 * BitAndN(x \div 2, y \div 2, n - 1)

BitAnd(x, y) == BitAndN(x % 65536, y % 65536, 16)
BitOr(x, y) == x + y - BitAnd(x, y)
Shl(x, n) == x * (2 ^ n)
Shr(x, n) == x \div (2 ^ n)

\* data.rfind(prefix, x0, x1): the highest f in [x0, x1 - len(prefix)] at which
\* prefix occurs in data, or -1
MatchAt(data, prefix, f) ==
    /\ f >= 0
    /\ f + Len(prefix) <= Len(data)
    /\ \A k \in 1..Len(prefix) : data[f + k] = prefix[k]

RECURSIVE rfindFrom(_, _, _, _)
rfindFrom(data, prefix, x0, f) ==
    IF f < x0 THEN -1
    ELSE IF MatchAt(data, prefix, f) THEN f
    ELSE rfindFrom(data, prefix, x0, f - 1)

rfind(data, prefix, x0, x1) ==
    rfindFrom(data, prefix, x0, Min(x1, Len(data)) - Len(prefix))

\* ------------------------------------------------------------ exact scores
\* a natural number as its digits in base 1000, least significant first

RECURSIVE BigNorm(_)
BigNorm(d) ==
    IF d # <<>> /\ d[Len(d)] = 0 THEN BigNorm(SubSeq(d, 1, Len(d) - 1)) ELSE d

RECURSIVE BigMulFrom(_, _, _, _)
BigMulFrom(d, k, pos, carry) ==
    IF pos > Len(d)
    THEN IF carry = 0 THEN <<>>
         ELSE <<carry % 1000>> \o BigMulFrom(d, k, pos, carry \div 1000)
    ELSE LET v == d[pos] * k + carry
         IN <<v % 1000>> \o BigMulFrom(d, k, pos + 1, v \div 1000)

BigMul(d, k) == BigNorm(BigMulFrom(d, k, 1, 0))

RECURSIVE BigMulPow(_, _, _)
BigMulPow(d, k, n) == IF n = 0 THEN d ELSE BigMulPow(BigMul(d, k), k, n - 1)

RECURSIVE BigLessFrom(_, _, _)
BigLessFrom(a, b, pos) ==
    IF pos = 0 THEN FALSE
    ELSE IF a[pos] # b[pos] THEN a[pos] < b[pos]
    ELSE BigLessFrom(a, b, pos - 1)

BigLess(a, b) ==
    IF Len(a) # Len(b) THEN Len(a) < Len(b) ELSE BigLessFrom(a, b, Len(a))

\* (size * count ** 1.1) ** 10
Score(size, count) == BigMulPow(BigMulPow(<<1>>, size, 10), count, 11)

\* ------------------------------------------------------------ findOptimalZero
\* the inner while of findOptimalZero, entered with j = j0: the j at which it
\* stops, the first one at which its condition fails
ZeroEnd(src, i0, j0) ==
    CHOOSE j \in j0..Len(src) :
        /\ ~(j < Len(src) /\ At(src, j) = 0 /\ j - i0 < 256)
        /\ \A k \in j0..(j - 1) : k < Len(src) /\ At(src, k) = 0 /\ k - i0 < 256

\* zeroruns[n] = zeroruns.get(n, 0) + 1, on the items of the dict in insertion order
RECURSIVE DictIncr(_, _)
DictIncr(items, n) ==
    IF items = <<>> THEN << <<n, 1>> >>
    ELSE IF Head(items)[1] = n
         THEN << <<n, Head(items)[2] + 1>> >> \o Tail(items)
         ELSE <<Head(items)>> \o DictIncr(Tail(items), n)

\* one iteration of the outer while of findOptimalZero
ZeroScanStep(src, st) ==
    IF At(src, st.i) = 0
    THEN LET j == ZeroEnd(src, st.i, st.i + 1)
         IN [i |-> j,
             zeroruns |-> IF j - st.i >= MINRLE
                          THEN DictIncr(st.zeroruns, j - st.i)
                          ELSE st.zeroruns]
    ELSE [i |-> st.i + 1, zeroruns |-> st.zeroruns]

RECURSIVE ZeroScan(_, _)
ZeroScan(src, st) ==
    IF st.i < Len(src) - 1 THEN ZeroScan(src, ZeroScanStep(src, st)) ELSE st

\* MinItem with x[0] and x[1] swapped in the key
RECURSIVE MinItem_swapped(_, _)
MinItem_swapped(items, best) ==
    IF items = <<>> THEN best
    ELSE IF BigLess(Score(best[2], best[1]), Score(Head(items)[2], Head(items)[1]))
         THEN MinItem_swapped(Tail(items), Head(items))
         ELSE MinItem_swapped(Tail(items), best)

\* min(items, key = lambda x: -x[0] * (x[1] ** 1.1)): the first item of the
\* smallest key
RECURSIVE MinItem(_, _)
MinItem(items, best) ==
    IF items = <<>> THEN best
    ELSE IF BigLess(Score(best[1], best[2]), Score(Head(items)[1], Head(items)[2]))
         THEN MinItem(Tail(items), Head(items))
         ELSE MinItem(Tail(items), best)

PickZero(zeroruns) ==
    IF Len(zeroruns) > 0
    THEN MinItem(Tail(zeroruns), Head(zeroruns))[1]
    ELSE LONGESTRLE

findOptimalZero(src) == PickZero(ZeroScan(src, [i |-> 0, zeroruns |-> <<>>]).zeroruns)

\* ------------------------------------------------------------ tokens
\* findall(data, prefix, i, minlz): the positions it yields, in the order it
\* yields them
RECURSIVE findallFrom(_, _, _, _, _)
findallFrom(data, prefix, x0, x1, minlz) ==
    LET f == rfind(data, prefix, x0, x1)
    IN IF f >= 0
       THEN <<f>> \o findallFrom(data, prefix, x0, f + minlz - 1, minlz)
       ELSE <<>>

findall(data, prefix, i, minlz) ==
    findallFrom(data, prefix, Max(0, i - LZOFFSET),
                Min(i + minlz - 1, Len(data)), minlz)

\* RLE(src, i): the run of src[i] starting at i
RECURSIVE RLERun(_, _, _)
RLERun(src, i, x) ==
    IF i + x < Len(src) /\ x < LONGESTRLE /\ At(src, i + x) = At(src, i)
    THEN RLERun(src, i, x + 1)
    ELSE x

RLE(src, i) == [type |-> RLEID, size |-> RLERun(src, i, 0), rleByte |-> At(src, i)]

\* RLE(src, i, size)
RLESized(src, i, size) == [type |-> RLEID, size |-> size, rleByte |-> At(src, i)]

\* the while of LZ.__init__ that extends the match at j
RECURSIVE LZExtend(_, _, _, _)
LZExtend(src, i, j, l) ==
    IF i + l < Len(src) /\ l < LONGESTLONGLZ /\ At(src, j + l) = At(src, i + l)
    THEN LZExtend(src, i, j, l + 1)
    ELSE l

\* LZBest with l >= bestlen for l > bestlen: the last longest match
RECURSIVE LZBest_last(_, _, _, _, _)
LZBest_last(src, i, minlz, js, best) ==
    IF js = <<>> THEN best
    ELSE LET l == LZExtend(src, i, Head(js), minlz)
         IN LZBest_last(src, i, minlz, Tail(js),
                        IF l >= best.len THEN [pos |-> Head(js), len |-> l] ELSE best)

\* the for of LZ.__init__ over the positions js that findall yields
RECURSIVE LZBest(_, _, _, _, _)
LZBest(src, i, minlz, js, best) ==
    IF js = <<>> THEN best
    ELSE LET l == LZExtend(src, i, Head(js), minlz)
         IN LZBest(src, i, minlz, Tail(js),
                   IF l > best.len THEN [pos |-> Head(js), len |-> l] ELSE best)

\* LZ(src, i, minlz = minlz)
LZ(src, i, minlz) ==
    LET none == [pos |-> i - 1, len |-> 0]
        best == IF Len(src) - i >= minlz
                THEN LZBest(src, i, minlz,
                            findall(src, Slice(src, i, i + minlz), i, minlz), none)
                ELSE none
    IN [type |-> LZID, size |-> best.len, offset |-> i - best.pos]

\* LZ(src, i, size = size, offset = offset)
LZSized(size, offset) == [type |-> LZID, size |-> size, offset |-> offset]

\* LZ(src, i, size = 1), the dummy LZ: it has no offset
LZDummy == [type |-> LZID, size |-> 1]

\* LZ2(src, i)
LZ2(src, i) ==
    LET o == IF i + 2 < Len(src)
             THEN rfind(src, Slice(src, i, i + 2), Max(0, i - LZ2OFFSET), i + 1)
             ELSE -1
    IN [type |-> LZ2ID, size |-> 2, offset |-> IF o >= 0 THEN i - o ELSE -1]

\* ZERORUN that does not look at the bytes
ZERORUN_unchecked(src, i, size) ==
    [type |-> ZERORUNID, size |-> IF ~(i + size < Len(src)) THEN 0 ELSE size]

\* ZERORUN(src, i, size)
ZERORUN(src, i, size) ==
    [type |-> ZERORUNID,
     size |-> IF ~(i + size < Len(src) /\ Slice(src, i, i + size) = Repeat(0, size))
              THEN 0 ELSE size]

\* LIT(src, i) followed by lit.size = size
LIT(i, size) == [type |-> LITERALID, size |-> size, start |-> i]

\* getCost() * 100000
getCost(t) ==
    IF t.type = ZERORUNID THEN 100000
    ELSE IF t.type = RLEID THEN 200000 + 128 - t.size
    ELSE IF t.type = LZID
         THEN (IF t.offset < 256 /\ t.size <= LONGESTLZ THEN 200000 ELSE 300000)
              + 134 - t.size
    ELSE IF t.type = LZ2ID THEN 100000 + 132 - t.size
    ELSE (t.size + 1) * 100000 + 130 - t.size

\* getPayload(); the literal reads the bytes of src
getPayload(t, src) ==
    IF t.type = ZERORUNID THEN <<RLEMASK>>
    ELSE IF t.type = RLEID
         THEN <<BitOr(RLEMASK, BitAnd(Shl(t.size - 1, 1), 127)), t.rleByte>>
    ELSE IF t.type = LZID
         THEN IF t.offset >= 256 \/ t.size > LONGESTLZ
              THEN LET negoffset == 0 - t.offset
                   IN <<BitOr(BitOr(LZMASK, BitAnd(Shl(Shr(t.size - 1, 1), 2), 127)), 0),
                        BitAnd(negoffset, 255),
                        BitOr(BitAnd(Shr(negoffset, 8), 127),
                              Shl(BitAnd(t.size - 1, 1), 7))>>
              ELSE <<BitOr(BitOr(LZMASK, BitAnd(Shl(t.size - 1, 2), 127)), 2),
                     BitAnd(t.offset, 255)>>
    ELSE IF t.type = LZ2ID THEN <<BitOr(LZ2MASK, 127 - t.offset)>>
    ELSE <<BitOr(LITERALMASK, t.size)>> \o Slice(src, t.start, t.start + t.size)

\* ------------------------------------------------------------ state
VARIABLES
    pc,                     \* the place reached in ocrunch, decrunch or findOptimalZero
    INPLACE,                \* the INPLACE flag
    data,                   \* Cruncher.src, the input
    src,                    \* the local src of ocrunch
    remainder,              \* the local remainder of ocrunch (INPLACE)
    optimalRun,             \* Cruncher.optimalRun
    i,                      \* the position of the LZ layer loop
    graph,                  \* Cruncher.graph: (i, j) -> token
    starts,                 \* a set, then the sorted list
    ends,                   \* a set, then the sorted list with 0 in front
    e,                      \* gap closing: index into ends
    s,                      \* gap closing: index into starts
    path,                   \* the keys get_path returned
    token_list,             \* Cruncher.token_list
    safety,                 \* INPLACE: the local safety
    total_uncrunched_size,  \* INPLACE: the local total_uncrunched_size
    crunched,               \* Cruncher.crunched
    di,                     \* Decruncher: the read index i
    decrunched,             \* Decruncher.decrunched
    zi,                     \* findOptimalZero: the local i
    zeroruns                \* findOptimalZero: the items of the dict zeroruns

vars == <<pc, INPLACE, data, src, remainder, optimalRun, i, graph, starts, ends,
          e, s, path, token_list, safety, total_uncrunched_size, crunched, di,
          decrunched, zi, zeroruns>>

\* the two bytes of the load address that main strips from a PRG
addr == <<1, 8>>

\* ------------------------------------------------------------ inputs
RECURSIVE Strings(_)
Strings(n) ==
    IF n = 0 THEN {<<>>}
    ELSE {Append(w, b) : w \in Strings(n - 1), b \in Alphabet}

ShortInputs == UNION {Strings(n) : n \in 1..MaxLen}

\* g pairwise distinct bytes 1, 2, ..., g: nothing in them repeats
Ramp(g) == [k \in 1..g |-> k]

\* the lengths next to a multiple of LONGESTLITERAL
GapLens == {g \in 1..MaxGap : g % LONGESTLITERAL \in {LONGESTLITERAL - 1, 0, 1, 2}}

GapInputs ==
    {pre \o Ramp(g) \o post :
        pre \in {<<>>, <<0, 0, 0>>}, g \in GapLens, post \in {<<>>, <<200, 200>>}}

PeriodicInputs ==
    {[k \in 1..n |-> IF k % 2 = 1 THEN 0 ELSE TERMINATOR] :
        n \in (MaxPeriodic - 2)..MaxPeriodic}

Inputs == ShortInputs \cup GapInputs \cup PeriodicInputs

\* ------------------------------------------------------------ the graph
EmptyDict == <<>>

\* graph.setdefault(key, tok): an edge already stored stays
PutFirst(g, key, tok) == g @@ (key :> tok)

\* graph[key] = tok
Put(g, key, tok) == (key :> tok) @@ g

\* the while of ocrunch that inserts the LZ edges at pos: lz, then the LZ of each
\* smaller size with the offset of lz, down to MINLZ and rlesize + 1.  The keys
\* differ, so the edges are stored at once.
LZSizes(lz, rlesize) == {n \in MINLZ..lz.size : n > rlesize}

InsertLZ(st, pos, lz, rlesize) ==
    [graph |-> [k \in {<<pos, pos + n>> : n \in LZSizes(lz, rlesize)} |->
                    LZSized(k[2] - pos, lz.offset)] @@ st.graph,
     ends |-> st.ends \cup {pos + n : n \in LZSizes(lz, rlesize)}]

\* the while of ocrunch that inserts the RLE edges at pos: rle, then the RLE of
\* each smaller size, down to MINRLE
RLESizes(rle) == MINRLE..rle.size

InsertRLE(st, bytes, pos, rle) ==
    [graph |-> [k \in {<<pos, pos + n>> : n \in RLESizes(rle)} |->
                    RLESized(bytes, pos, k[2] - pos)] @@ st.graph,
     ends |-> st.ends \cup {pos + n : n \in RLESizes(rle)}]

RECURSIVE SortedSeq(_)
SortedSeq(S) ==
    IF S = {} THEN <<>>
    ELSE LET m == CHOOSE x \in S : \A y \in S : x <= y
         IN <<m>> \o SortedSeq(S \ {m})

\* BridgeLong with > for >=
RECURSIVE BridgeLong_strict(_, _, _)
BridgeLong_strict(g, end, start) ==
    IF start - end > LONGESTLITERAL
    THEN LET key == <<end, end + LONGESTLITERAL>>
         IN BridgeLong_strict(IF key \notin DOMAIN g
                              THEN Put(g, key, LIT(end, LONGESTLITERAL)) ELSE g,
                              end + LONGESTLITERAL, start)
    ELSE [graph |-> g, end |-> end]

\* closing gaps: the while that bridges with literals of LONGESTLITERAL bytes
RECURSIVE BridgeLong(_, _, _)
BridgeLong(g, end, start) ==
    IF start - end >= LONGESTLITERAL
    THEN LET key == <<end, end + LONGESTLITERAL>>
         IN BridgeLong(IF key \notin DOMAIN g
                       THEN Put(g, key, LIT(end, LONGESTLITERAL)) ELSE g,
                       end + LONGESTLITERAL, start)
    ELSE [graph |-> g, end |-> end]

\* closing gaps: the while over s0
RECURSIVE BridgeShort(_, _, _, _)
BridgeShort(g, end, sts, s0) ==
    IF s0 < Len(sts) /\ At(sts, s0) - end < LONGESTLITERAL
    THEN LET key == <<end, At(sts, s0)>>
         IN BridgeShort(IF key \notin DOMAIN g
                        THEN Put(g, key, LIT(end, At(sts, s0) - end)) ELSE g,
                        end, sts, s0 + 1)
    ELSE g

\* ------------------------------------------------------------ shortest path
\* dijkstra(dgraph, indices = 0, return_predecessors = True): the distances d of
\* the nodes 0..t-1 extended to node t; -1 stands for inf.  Every edge with a
\* positive weight that can shorten a path goes forward.
InEdges(g, t) == {k \in DOMAIN g : k[2] = t /\ k[1] < t}

SetMin(S) == CHOOSE x \in S : \A y \in S : x <= y

RECURSIVE Dist(_, _, _)
Dist(g, n, d) ==
    IF Len(d) > n THEN d
    ELSE LET t == Len(d)
             c == {At(d, k[1]) + getCost(g[k]) : k \in {k \in InEdges(g, t) : At(d, k[1]) >= 0}}
         IN Dist(g, n, Append(d, IF c = {} THEN -1 ELSE SetMin(c)))

\* predecessors on any path, shortest or not
Preds_any(g, d, t) ==
    IF t = 0 \/ At(d, t) < 0 THEN {-9999}
    ELSE {k[1] : k \in {k \in InEdges(g, t) : At(d, k[1]) >= 0}}

\* the predecessors dijkstra may report for node t: it reports one of those on
\* a shortest path, and -9999 for node 0 and for a node it cannot reach
Preds(g, d, t) ==
    IF t = 0 \/ At(d, t) < 0 THEN {-9999}
    ELSE {k[1] : k \in {k \in InEdges(g, t) :
                          At(d, k[1]) >= 0 /\ At(d, k[1]) + getCost(g[k]) = At(d, t)}}

RECURSIVE PredArrays(_, _, _)
PredArrays(g, d, t) ==
    IF t < 0 THEN {<<>>}
    ELSE {Append(q, u) : q \in PredArrays(g, d, t - 1), u \in Preds(g, d, t)}

dijkstra(g, n) == PredArrays(g, Dist(g, n, <<0>>), n)

Reverse(q) == [k \in 1..Len(q) |-> q[Len(q) + 1 - k]]

RECURSIVE get_path_walk(_, _, _)
get_path_walk(p, n, q) ==
    IF At(p, n) >= 0 THEN get_path_walk(p, At(p, n), Append(q, At(p, n))) ELSE q

get_path(p) ==
    LET q == Reverse(get_path_walk(p, Len(p) - 1, <<Len(p) - 1>>))
    IN [k \in 1..(Len(q) - 1) |-> <<q[k], q[k + 1]>>]

\* ------------------------------------------------------------ emitting
\* the payloads of the tokens tl, one after the other
RECURSIVE Payloads(_, _)
Payloads(tl, bytes) ==
    IF tl = <<>> THEN <<>>
    ELSE getPayload(Head(tl), bytes) \o Payloads(Tail(tl), bytes)

\* SafetyScan that keeps the first safety it finds
RECURSIVE SafetyScan_first(_, _, _, _)
SafetyScan_first(tl, bytes, k, st) ==
    IF k < 0 THEN st
    ELSE LET c == st.segment_crunched_size + Len(getPayload(At(tl, k), bytes))
             u == st.segment_uncrunched_size + At(tl, k).size
         IN SafetyScan_first(tl, bytes, k - 1,
                IF u <= c + 0
                THEN [safety |-> IF st.safety = Len(tl) THEN k ELSE st.safety,
                      segment_uncrunched_size |-> 0,
                      segment_crunched_size |-> 0,
                      total_uncrunched_size |-> st.total_uncrunched_size + u]
                ELSE [safety |-> st.safety,
                      segment_uncrunched_size |-> u,
                      segment_crunched_size |-> c,
                      total_uncrunched_size |-> st.total_uncrunched_size])

\* SafetyScan with total_uncrunched_size = for total_uncrunched_size +=
RECURSIVE SafetyScan_assign(_, _, _, _)
SafetyScan_assign(tl, bytes, k, st) ==
    IF k < 0 THEN st
    ELSE LET c == st.segment_crunched_size + Len(getPayload(At(tl, k), bytes))
             u == st.segment_uncrunched_size + At(tl, k).size
         IN SafetyScan_assign(tl, bytes, k - 1,
                IF u <= c + 0
                THEN [safety |-> k,
                      segment_uncrunched_size |-> 0,
                      segment_crunched_size |-> 0,
                      total_uncrunched_size |-> u]
                ELSE [safety |-> st.safety,
                      segment_uncrunched_size |-> u,
                      segment_crunched_size |-> c,
                      total_uncrunched_size |-> st.total_uncrunched_size])

\* the for of the INPLACE branch, from index k down to 0
RECURSIVE SafetyScan(_, _, _, _)
SafetyScan(tl, bytes, k, st) ==
    IF k < 0 THEN st
    ELSE LET c == st.segment_crunched_size + Len(getPayload(At(tl, k), bytes))
             u == st.segment_uncrunched_size + At(tl, k).size
         IN SafetyScan(tl, bytes, k - 1,
                IF u <= c + 0
                THEN [safety |-> k,
                      segment_uncrunched_size |-> 0,
                      segment_crunched_size |-> 0,
                      total_uncrunched_size |-> st.total_uncrunched_size + u]
                ELSE [safety |-> st.safety,
                      segment_uncrunched_size |-> u,
                      segment_crunched_size |-> c,
                      total_uncrunched_size |-> st.total_uncrunched_size])

\* ------------------------------------------------------------ Decruncher
\* for l in range(run): decrunched.append(decrunched[p - offset + l])
RECURSIVE CopyBack(_, _, _, _, _)
CopyBack(dec, p, offset, l, run) ==
    IF l < run
    THEN CopyBack(Append(dec, At(dec, p - offset + l)), p, offset, l + 1, run)
    ELSE dec

\* one iteration of the while of decrunch
DecrunchToken(csrc, k, dec) ==
    LET code == At(csrc, k)
        optRun == At(csrc, 0) + 1
    IN IF BitAnd(code, 128) = LITERALMASK /\ BitAnd(code, 127) < 32
       THEN LET run == BitAnd(code, 31)
            IN [i |-> k + run + 1,
                decrunched |-> dec \o Slice(csrc, k + 1, k + run + 1)]
       ELSE IF BitAnd(code, 128) = LZ2MASK
       THEN [i |-> k + 1,
             decrunched |-> CopyBack(dec, Len(dec), 127 - BitAnd(code, 127), 0, 2)]
       ELSE IF BitAnd(code, 129) = RLEMASK /\ BitAnd(code, 126) # 0
       THEN [i |-> k + 2,
             decrunched |-> dec \o Repeat(At(csrc, k + 1), Shr(BitAnd(code, 127), 1) + 1)]
       ELSE IF BitAnd(code, 129) = RLEMASK /\ BitAnd(code, 126) = 0
       THEN [i |-> k + 1, decrunched |-> dec \o Repeat(0, optRun)]
       ELSE IF BitAnd(code, 2) = 2
       THEN [i |-> k + 2,
             decrunched |-> CopyBack(dec, Len(dec), At(csrc, k + 1), 0,
                                     Shr(BitAnd(code, 127), 2) + 1)]
       ELSE LET lookahead == At(csrc, k + 2)
                run == 1 + Shl(Shr(BitAnd(code, 127), 2), 1)
                         + (IF BitAnd(lookahead, 128) = 128 THEN 1 ELSE 0)
                offset == 32768 - (At(csrc, k + 1) + 256 * BitAnd(lookahead, 127))
            IN [i |-> k + 3, decrunched |-> CopyBack(dec, Len(dec), offset, 0, run)]

\* ------------------------------------------------------------ behaviour
Init ==
    /\ pc = "start"
    /\ INPLACE \in BOOLEAN
    /\ data \in Inputs
    /\ INPLACE => Len(data) >= 2
    /\ src = <<>>
    /\ remainder = <<>>
    /\ optimalRun = 0
    /\ i = 0
    /\ graph = EmptyDict
    /\ starts = {}
    /\ ends = {}
    /\ e = 0
    /\ s = 0
    /\ path = <<>>
    /\ token_list = <<>>
    /\ safety = 0
    /\ total_uncrunched_size = 0
    /\ crunched = <<>>
    /\ di = 0
    /\ decrunched = <<>>
    /\ zi = 0
    /\ zeroruns = <<>>

\* ocrunch up to the LZ layer loop
Start ==
    /\ pc = "start"
    /\ LET bytes == IF INPLACE THEN SubSeq(data, 1, Len(data) - 1) ELSE data
       IN /\ src' = bytes
          /\ optimalRun' = findOptimalZero(bytes)
    /\ remainder' = IF INPLACE THEN Tail_n(data, 1) ELSE remainder
    /\ i' = 0
    /\ pc' = "lz"
    /\ UNCHANGED <<INPLACE, data, graph, starts, ends, e, s, path, token_list,
                   safety, total_uncrunched_size, crunched, di, decrunched, zi,
                   zeroruns>>

\* position i of the LZ layer: rle, lz, starts and the LZ edges
PopulateLZ ==
    /\ pc = "lz"
    /\ i < Len(src)
    /\ LET rle == RLE(src, i)
           lz == IF rle.size < LONGESTLONGLZ - 1
                 THEN LZ(src, i, rle.size + 1)
                 ELSE LZDummy
           st == InsertLZ([graph |-> graph, ends |-> ends], i, lz, rle.size)
       IN /\ starts' = IF lz.size >= MINLZ \/ rle.size >= MINRLE
                       THEN starts \cup {i} ELSE starts
          /\ graph' = st.graph
          /\ ends' = st.ends
    /\ pc' = "rle"
    /\ UNCHANGED <<INPLACE, data, src, remainder, optimalRun, i, e, s, path,
                   token_list, safety, total_uncrunched_size, crunched, di,
                   decrunched, zi, zeroruns>>

\* position i of the LZ layer: the RLE edges
PopulateRLE ==
    /\ pc = "rle"
    /\ LET st == InsertRLE([graph |-> graph, ends |-> ends], src, i, RLE(src, i))
       IN /\ graph' = st.graph
          /\ ends' = st.ends
    /\ pc' = "lz2"
    /\ UNCHANGED <<INPLACE, data, src, remainder, optimalRun, i, starts, e, s,
                   path, token_list, safety, total_uncrunched_size, crunched, di,
                   decrunched, zi, zeroruns>>

\* position i of the LZ layer: the LZ2 edge
PopulateLZ2 ==
    /\ pc = "lz2"
    /\ LET lz2 == LZ2(src, i)
       IN IF lz2.offset > 0
          THEN /\ graph' = Put(graph, <<i, i + 2>>, lz2)
               /\ starts' = starts \cup {i}
               /\ ends' = ends \cup {i + 2}
          ELSE UNCHANGED <<graph, starts, ends>>
    /\ pc' = "zero"
    /\ UNCHANGED <<INPLACE, data, src, remainder, optimalRun, i, e, s, path,
                   token_list, safety, total_uncrunched_size, crunched, di,
                   decrunched, zi, zeroruns>>

\* position i of the LZ layer: the ZeroRun edge; on to position i + 1
PopulateZero ==
    /\ pc = "zero"
    /\ LET zero == ZERORUN(src, i, optimalRun)
       IN IF zero.size > 0
          THEN /\ graph' = Put(graph, <<i, i + optimalRun>>, zero)
               /\ starts' = starts \cup {i}
               /\ ends' = ends \cup {i + optimalRun}
          ELSE UNCHANGED <<graph, starts, ends>>
    /\ i' = i + 1
    /\ pc' = "lz"
    /\ UNCHANGED <<INPLACE, data, src, remainder, optimalRun, e, s, path,
                   token_list, safety, total_uncrunched_size, crunched, di,
                   decrunched, zi, zeroruns>>

\* after the LZ layer: starts and ends become sorted lists
SortStartsEnds ==
    /\ pc = "lz"
    /\ i = Len(src)
    /\ starts' = SortedSeq(starts \cup {Len(src)})
    /\ ends' = <<0>> \o SortedSeq(ends)
    /\ e' = 0
    /\ s' = 0
    /\ pc' = "gaps"
    /\ UNCHANGED <<INPLACE, data, src, remainder, optimalRun, i, graph, path,
                   token_list, safety, total_uncrunched_size, crunched, di,
                   decrunched, zi, zeroruns>>

\* one iteration of the while that closes the gaps
CloseGap ==
    /\ pc = "gaps"
    /\ e < Len(ends) /\ s < Len(starts)
    /\ LET end == At(ends, e)
       IN IF end < At(starts, s)
          THEN LET b == BridgeLong(graph, end, At(starts, s))
               IN /\ graph' = BridgeShort(b.graph, b.end, starts, s)
                  /\ e' = e + 1
                  /\ s' = s
          ELSE /\ s' = s + 1
               /\ UNCHANGED <<graph, e>>
    /\ UNCHANGED <<pc, INPLACE, data, src, remainder, optimalRun, i, starts, ends,
                   path, token_list, safety, total_uncrunched_size, crunched, di,
                   decrunched, zi, zeroruns>>

\* the shortest path from node 0 and the tokens on it
ShortestPath ==
    /\ pc = "gaps"
    /\ ~(e < Len(ends) /\ s < Len(starts))
    /\ \E p \in dijkstra(graph, Len(src)) :
          /\ path' = get_path(p)
          /\ token_list' = [k \in 1..Len(get_path(p)) |-> graph[get_path(p)[k]]]
    /\ pc' = "emit"
    /\ UNCHANGED <<INPLACE, data, src, remainder, optimalRun, i, graph, starts,
                   ends, e, s, safety, total_uncrunched_size, crunched, di,
                   decrunched, zi, zeroruns>>

\* the INPLACE branch of ocrunch
EmitInplace ==
    /\ pc = "emit"
    /\ INPLACE
    /\ LET st == SafetyScan(token_list, data, Len(token_list) - 1,
                            [safety |-> Len(token_list),
                             segment_uncrunched_size |-> 0,
                             segment_crunched_size |-> 0,
                             total_uncrunched_size |-> 0])
           rem == IF st.total_uncrunched_size > 0
                  THEN Tail_n(src, st.total_uncrunched_size) \o remainder
                  ELSE remainder
       IN /\ safety' = st.safety
          /\ total_uncrunched_size' = st.total_uncrunched_size
          /\ remainder' = rem
          /\ crunched' = addr \o <<optimalRun - 1>> \o Slice(rem, 0, 1)
                           \o Payloads(SubSeq(token_list, 1, st.safety), data)
                           \o <<TERMINATOR>> \o Slice(rem, 1, Len(rem))
    /\ pc' = "done"
    /\ UNCHANGED <<INPLACE, data, src, optimalRun, i, graph, starts, ends, e, s,
                   path, token_list, di, decrunched, zi, zeroruns>>

\* the RAW branch of ocrunch (SFX is off)
EmitRaw ==
    /\ pc = "emit"
    /\ ~INPLACE
    /\ crunched' = <<optimalRun - 1>> \o Payloads(token_list, data) \o <<TERMINATOR>>
    /\ pc' = "crunched"
    /\ UNCHANGED <<INPLACE, data, src, remainder, optimalRun, i, graph, starts,
                   ends, e, s, path, token_list, safety, total_uncrunched_size,
                   di, decrunched, zi, zeroruns>>

\* Decruncher(cruncher.crunched): decrunch up to its while
DecrunchStart ==
    /\ pc = "crunched"
    /\ decrunched' = <<>>
    /\ di' = 1
    /\ pc' = "decrunch"
    /\ UNCHANGED <<INPLACE, data, src, remainder, optimalRun, i, graph, starts,
                   ends, e, s, path, token_list, safety, total_uncrunched_size,
                   crunched, zi, zeroruns>>

\* one token of decrunch
DecrunchStep ==
    /\ pc = "decrunch"
    /\ At(crunched, di) # TERMINATOR
    /\ LET st == DecrunchToken(crunched, di, decrunched)
       IN /\ di' = st.i
          /\ decrunched' = st.decrunched
    /\ UNCHANGED <<pc, INPLACE, data, src, remainder, optimalRun, i, graph, starts,
                   ends, e, s, path, token_list, safety, total_uncrunched_size,
                   crunched, zi, zeroruns>>

\* decrunch reads the TERMINATOR
DecrunchEnd ==
    /\ pc = "decrunch"
    /\ At(crunched, di) = TERMINATOR
    /\ pc' = "done"
    /\ UNCHANGED <<INPLACE, data, src, remainder, optimalRun, i, graph, starts,
                   ends, e, s, path, token_list, safety, total_uncrunched_size,
                   crunched, di, decrunched, zi, zeroruns>>

Next ==
    \/ Start
    \/ PopulateLZ
    \/ PopulateRLE
    \/ PopulateLZ2
    \/ PopulateZero
    \/ SortStartsEnds
    \/ CloseGap
    \/ ShortestPath
    \/ EmitInplace
    \/ EmitRaw
    \/ DecrunchStart
    \/ DecrunchStep
    \/ DecrunchEnd

Spec == Init /\ [][Next]_vars

\* ------------------------------------------------------------ findOptimalZero alone
RunLens == {1, 2, 4, 255, 256, 258}

RECURSIVE RunSeqs(_)
RunSeqs(n) ==
    IF n = 0 THEN {<<>>}
    ELSE {Append(w, r) : w \in RunSeqs(n - 1), r \in RunLens}

\* runs of zeros, a byte 1 after each run but the last
RECURSIVE JoinRuns(_)
JoinRuns(rs) ==
    IF rs = <<>> THEN <<>>
    ELSE IF Len(rs) = 1 THEN Repeat(0, Head(rs))
    ELSE Repeat(0, Head(rs)) \o <<1>> \o JoinRuns(Tail(rs))

ZeroInputs ==
    UNION {{JoinRuns(rs), JoinRuns(rs) \o <<1>>, <<1>> \o JoinRuns(rs)} :
              rs \in UNION {RunSeqs(n) : n \in 1..MaxRuns}}

InitZ ==
    /\ pc = "zscan"
    /\ INPLACE = FALSE
    /\ src \in ZeroInputs
    /\ data = src
    /\ remainder = <<>>
    /\ optimalRun = 0
    /\ i = 0
    /\ graph = EmptyDict
    /\ starts = {}
    /\ ends = {}
    /\ e = 0
    /\ s = 0
    /\ path = <<>>
    /\ token_list = <<>>
    /\ safety = 0
    /\ total_uncrunched_size = 0
    /\ crunched = <<>>
    /\ di = 0
    /\ decrunched = <<>>
    /\ zi = 0
    /\ zeroruns = <<>>

\* one iteration of the outer while of findOptimalZero
ZScan ==
    /\ pc = "zscan"
    /\ zi < Len(src) - 1
    /\ LET st == ZeroScanStep(src, [i |-> zi, zeroruns |-> zeroruns])
       IN /\ zi' = st.i
          /\ zeroruns' = st.zeroruns
    /\ UNCHANGED <<pc, INPLACE, data, src, remainder, optimalRun, i, graph, starts,
                   ends, e, s, path, token_list, safety, total_uncrunched_size,
                   crunched, di, decrunched>>

\* the return of findOptimalZero
ZPick ==
    /\ pc = "zscan"
    /\ ~(zi < Len(src) - 1)
    /\ optimalRun' = PickZero(zeroruns)
    /\ pc' = "zdone"
    /\ UNCHANGED <<INPLACE, data, src, remainder, i, graph, starts, ends, e, s,
                   path, token_list, safety, total_uncrunched_size, crunched, di,
                   decrunched, zi, zeroruns>>

NextZ == ZScan \/ ZPick

SpecZ == InitZ /\ [][NextZ]_vars

\* ------------------------------------------------------------ properties
RECURSIVE SumSizes(_)
SumSizes(tl) == IF tl = <<>> THEN 0 ELSE Head(tl).size + SumSizes(Tail(tl))

RECURSIVE SumCosts(_)
SumCosts(tl) == IF tl = <<>> THEN 0 ELSE getCost(Head(tl)) + SumCosts(Tail(tl))

RECURSIVE SumPayloads(_, _)
SumPayloads(tl, bytes) ==
    IF tl = <<>> THEN 0
    ELSE Len(getPayload(Head(tl), bytes)) + SumPayloads(Tail(tl), bytes)

HasPath == pc \in {"emit", "crunched", "decrunch", "done"}

TokenTypes == {token_list[k].type : k \in 1..Len(token_list)}

\* C1: in RAW mode, decrunch of the stream ocrunch produced (the byte
\* optimalRun - 1, the payloads, TERMINATOR) yields exactly the input
RoundTrip == (pc = "done" /\ ~INPLACE) => decrunched = data

\* a round trip through a ZeroRun, an RLE and an LZ2 token
RoundTripWitness ==
    /\ pc = "done" /\ ~INPLACE
    /\ decrunched = data
    /\ {ZERORUNID, RLEID, LZ2ID} \subseteq TokenTypes

\* the forward edges leaving node u
OutEdges(g, u) == {k \in DOMAIN g : k[1] = u /\ k[2] > u}

\* the cheapest way from node u to node n, going back from n; -1 when there is none
RECURSIVE BackDist(_, _, _)
BackDist(g, n, d) ==
    IF Len(d) > n THEN d
    ELSE LET u == n - Len(d)
             c == {getCost(g[k]) + d[k[2] - u] :
                      k \in {k \in OutEdges(g, u) : d[k[2] - u] >= 0}}
         IN BackDist(g, n, <<IF c = {} THEN -1 ELSE SetMin(c)>> \o d)

\* the total costs of all paths from node u to node n, path by path
RECURSIVE PathCosts(_, _, _)
PathCosts(g, u, n) ==
    IF u = n THEN {0}
    ELSE UNION {{getCost(g[k]) + c : c \in PathCosts(g, k[2], n)} : k \in OutEdges(g, u)}

\* C2: the costs of the emitted tokens add up to the minimum total cost over
\* all paths from node 0 to node N of the graph; for small N the enumeration
\* of all paths agrees
Optimality ==
    HasPath =>
        /\ SumCosts(token_list) = BackDist(graph, Len(src), <<0>>)[1]
        /\ Len(src) <= MaxBrute =>
              /\ PathCosts(graph, 0, Len(src)) # {}
              /\ SumCosts(token_list) = SetMin(PathCosts(graph, 0, Len(src)))

\* a state in which the graph has several paths of different cost
OptimalityWitness ==
    /\ HasPath
    /\ Len(src) <= MaxBrute
    /\ Cardinality(PathCosts(graph, 0, Len(src))) >= 3
    /\ SumCosts(token_list) = SetMin(PathCosts(graph, 0, Len(src)))

\* C3: the emitted tokens are a path 0 = v0 < v1 < ... < vk = N of the graph:
\* the first starts at 0, each starts where the one before ends, and the sizes
\* sum to N; so N is reachable from 0 after gap closing
ExactCoverage ==
    HasPath =>
        /\ Len(path) >= 1
        /\ Len(token_list) = Len(path)
        /\ path[1][1] = 0
        /\ path[Len(path)][2] = Len(src)
        /\ \A k \in 1..Len(path) :
              /\ path[k] \in DOMAIN graph
              /\ path[k][1] < path[k][2]
              /\ token_list[k] = graph[path[k]]
              /\ token_list[k].size = path[k][2] - path[k][1]
        /\ \A k \in 1..(Len(path) - 1) : path[k][2] = path[k + 1][1]
        /\ SumSizes(token_list) = Len(src)

\* a path that bridges a gap of exactly 2 * LONGESTLITERAL bytes with literals
ExactCoverageWitness ==
    /\ HasPath
    /\ SumSizes(token_list) = Len(src)
    /\ Cardinality({k \in 1..Len(token_list) :
                      token_list[k].type = LITERALID
                      /\ token_list[k].size = LONGESTLITERAL}) = 2
    /\ RLEID \in TokenTypes

\* the positions of the LZ layer that are done
Populated ==
    IF pc \in {"lz", "rle", "lz2", "zero"} THEN 0..(i - 1) ELSE 0..(Len(src) - 1)

\* C5: every position at which optimalRun zero bytes start and end within the
\* input, the end of the input included, has a ZeroRun edge
ZeroRunEdges ==
    \A pos \in Populated :
        (pos + optimalRun <= Len(src)
         /\ \A k \in pos..(pos + optimalRun - 1) : At(src, k) = 0)
        => /\ <<pos, pos + optimalRun>> \in DOMAIN graph
           /\ graph[<<pos, pos + optimalRun>>].type = ZERORUNID

\* C7: every edge (i, j) of the graph goes forward and its token has the size
\* j - i > 0; a literal has between 1 and LONGESTLITERAL bytes
ForwardEdges ==
    \A k \in DOMAIN graph :
        /\ k[2] > k[1]
        /\ graph[k].size > 0
        /\ graph[k].size = k[2] - k[1]
        /\ graph[k].type = LITERALID => graph[k].size \in 1..LONGESTLITERAL

\* C4: after the suffix safety scan, the tokens token_list[k:safety], for every
\* k in [0, safety], decode to at least as many bytes as their payloads occupy
InplaceSafety ==
    (pc = "done" /\ INPLACE) =>
        \A k \in 0..safety :
            SumSizes(SubSeq(token_list, k + 1, safety))
                >= SumPayloads(SubSeq(token_list, k + 1, safety), data)

\* the scan reset its segment more than once and still emits tokens
InplaceSafetyWitness ==
    /\ pc = "done" /\ INPLACE
    /\ 0 < safety
    /\ safety + 1 < Len(token_list)
    /\ token_list[Len(token_list)].size
          <= Len(getPayload(token_list[Len(token_list)], data))

\* C8: total_uncrunched_size is the sum of the sizes of the dropped tokens
\* token_list[safety:]; the sizes of the emitted tokens, the raw bytes kept and
\* the last byte add up to the source length, and the raw bytes are the source
\* bytes that follow the last emitted token
InplaceTail ==
    (pc = "done" /\ INPLACE) =>
        LET emitted == SumSizes(SubSeq(token_list, 1, safety))
        IN /\ total_uncrunched_size
                 = SumSizes(SubSeq(token_list, safety + 1, Len(token_list)))
           /\ emitted + total_uncrunched_size + 1 = Len(data)
           /\ remainder = SubSeq(data, emitted + 1, Len(data))
           /\ crunched = addr \o <<optimalRun - 1>> \o Slice(remainder, 0, 1)
                           \o Payloads(SubSeq(token_list, 1, safety), data)
                           \o <<TERMINATOR>> \o Slice(remainder, 1, Len(remainder))

\* tokens are dropped and tokens are emitted
InplaceTailWitness ==
    /\ pc = "done" /\ INPLACE
    /\ 0 < safety
    /\ safety < Len(token_list)
    /\ total_uncrunched_size >= 2
    /\ Len(remainder) = total_uncrunched_size + 1

\* what ocrunch computes at position pos
RleAt(pos) == RLE(src, pos)
LzAt(pos) ==
    IF RleAt(pos).size < LONGESTLONGLZ - 1
    THEN LZ(src, pos, RleAt(pos).size + 1)
    ELSE LZDummy

\* a step of the LZ layer leaves every edge of the graph as it is
EdgesKept ==
    (pc \in {"lz", "rle", "lz2", "zero"})
        => (\A k \in DOMAIN graph : k \in DOMAIN graph' /\ graph[k] = graph'[k])

\* the positions whose edges are looked at: the one the LZ layer has just done
\* and, once the graph is complete, all of them
Settled ==
    IF pc = "lz" THEN {i - 1} \cap Nat
    ELSE IF pc = "emit" THEN 0..(Len(src) - 1)
    ELSE {}

\* C6 as claimed: an edge stored in the graph by the LZ layer is never replaced
FirstInsertedKept == [][EdgesKept]_vars

\* C6: of the candidate tokens of a position that span the same key, the graph
\* keeps the one inserted last in the order LZ, RLE, LZ2, ZeroRun: an LZ2 or
\* ZeroRun candidate replaces the edge stored there; LZ and RLE candidates
\* have different keys
LastInsertedKept ==
    \A pos \in Settled :
        LET zero == ZERORUN(src, pos, optimalRun)
            lz2 == LZ2(src, pos)
        IN /\ zero.size > 0 => graph[<<pos, pos + optimalRun>>] = zero
           /\ (lz2.offset > 0 /\ ~(zero.size > 0 /\ optimalRun = 2))
                 => graph[<<pos, pos + 2>>] = lz2
           /\ \A n \in RLESizes(RleAt(pos)) :
                 (~(zero.size > 0 /\ optimalRun = n) /\ ~(lz2.offset > 0 /\ n = 2))
                    => graph[<<pos, pos + n>>].type = RLEID
           /\ \A n \in LZSizes(LzAt(pos), RleAt(pos).size) :
                 /\ n \notin RLESizes(RleAt(pos))
                 /\ (~(zero.size > 0 /\ optimalRun = n) /\ ~(lz2.offset > 0 /\ n = 2))
                       => graph[<<pos, pos + n>>].type = LZID

\* the LZ2 edge of position i has just replaced its RLE edge of size 2
LastInsertedKeptWitness ==
    /\ pc = "zero"
    /\ RleAt(i).size >= 2
    /\ LZ2(src, i).offset > 0
    /\ graph[<<i, i + 2>>].type = LZ2ID

\* the length of the match of position pos at the earlier position j, capped at
\* LONGESTLONGLZ and at the end of the input
MatchLen(S, pos, j) ==
    LET cap == Min(LONGESTLONGLZ, Len(S) - pos)
    IN CHOOSE l \in 0..cap :
          /\ l = cap \/ At(S, j + l) # At(S, pos + l)
          /\ \A k \in 0..(l - 1) : At(S, j + k) = At(S, pos + k)

\* the earlier positions in the window whose first m bytes are those at pos
Candidates(S, pos, m) ==
    {j \in Max(0, pos - LZOFFSET)..(pos - 1) : MatchLen(S, pos, j) >= m}

MinLzs(pos) == (1..MaxMinLz) \cup {RleAt(pos).size + 1}

\* C9: LZ(src, i, minlz = m) has the maximum match length over the candidates
\* and, of the candidates of that length, the smallest offset; without a
\* candidate its size is 0 and no LZ edge is inserted
LZContract ==
    /\ (pc = "lz" /\ i < Len(src)) =>
          \A m \in MinLzs(i) :
             LET c == Candidates(src, i, m)
                 r == LZ(src, i, m)
             IN IF c = {} THEN r.size = 0
                ELSE /\ \E j \in c : MatchLen(src, i, j) = r.size
                     /\ \A j \in c : MatchLen(src, i, j) <= r.size
                     /\ i - r.offset \in c
                     /\ MatchLen(src, i, i - r.offset) = r.size
                     /\ \A j \in c : MatchLen(src, i, j) = r.size => i - j >= r.offset
    /\ (pc = "rle" /\ Candidates(src, i, RleAt(i).size + 1) = {}) =>
          \A k \in DOMAIN graph : k[1] = i => graph[k].type # LZID

\* two earlier positions reach the maximum length, and it makes an LZ edge
LZContractWitness ==
    /\ pc = "lz" /\ i < Len(src)
    /\ LET m == RleAt(i).size + 1
           r == LZ(src, i, m)
       IN /\ r.size >= MINLZ
          /\ Cardinality({j \in Candidates(src, i, m) :
                             MatchLen(src, i, j) = r.size}) >= 2

\* the pieces the zero runs of S count as: a maximal run of R zeros starting at
\* a is R \div 256 pieces <<a, q, 256>> and, when R % 256 >= MINRLE, one piece
\* <<a, 0, R % 256>>
ZeroRunStarts(S) ==
    {a \in 0..(Len(S) - 1) : At(S, a) = 0 /\ (a = 0 \/ At(S, a - 1) # 0)}

RunLength(S, a) ==
    CHOOSE r \in 1..(Len(S) - a) :
        /\ a + r = Len(S) \/ At(S, a + r) # 0
        /\ \A k \in a..(a + r - 1) : At(S, k) = 0

Pieces(S) ==
    UNION {{<<a, q, 256>> : q \in 1..(RunLength(S, a) \div 256)}
              \cup (IF RunLength(S, a) % 256 >= MINRLE
                    THEN {<<a, 0, RunLength(S, a) % 256>>} ELSE {}) :
           a \in ZeroRunStarts(S)}

PieceCount(ps, L) == Cardinality({c \in ps : c[3] = L})

\* C10 as claimed: the L in [MINRLE, 255] that maximises count(L) * L^1.1
OptimalZeroClaimed ==
    pc = "zdone" =>
        LET ps == Pieces(src)
            lens == {c[3] : c \in ps}
        IN IF lens = {} THEN optimalRun = LONGESTRLE
           ELSE /\ optimalRun \in MINRLE..255
                /\ optimalRun \in lens
                /\ \A L \in lens :
                      ~BigLess(Score(PieceCount(ps, optimalRun), optimalRun),
                               Score(PieceCount(ps, L), L))

\* C10: findOptimalZero returns the L in [MINRLE, 256] that maximises
\* L * count(L)^1.1, and LONGESTRLE when no run of zeros has MINRLE bytes
OptimalZero ==
    pc = "zdone" =>
        LET ps == Pieces(src)
            lens == {c[3] : c \in ps}
        IN IF lens = {} THEN optimalRun = LONGESTRLE
           ELSE /\ optimalRun \in MINRLE..256
                /\ optimalRun \in lens
                /\ \A L \in lens :
                      ~BigLess(Score(optimalRun, PieceCount(ps, optimalRun)),
                               Score(L, PieceCount(ps, L)))

\* two runs of 2 win over one run of 4: 2 * 2^1.1 > 4 * 1^1.1
OptimalZeroWitness ==
    /\ pc = "zdone"
    /\ optimalRun = 2
    /\ PieceCount(Pieces(src), 2) = 2
    /\ PieceCount(Pieces(src), 4) = 1

=============================================================================
